---- MODULE Spec2Model ----
(***************************************************************************)
(* Model of src/Main.cpp: read_audio_into_buffer (setup, pump, teardown)   *)
(* and FFMPEG_decode (the decode/resample pump).                           *)
(* ReadCallback and SeekCallback, which the library calls on the FILE,     *)
(* are modelled under a specification of their own, IoSpec.                *)
(*                                                                         *)
(* The FFmpeg library is the environment.  Its calls are modelled by the   *)
(* return values their documentation allows:                               *)
(*   av_read_frame           0 with a packet | AVERROR_EOF with a blank    *)
(*                           packet | a negative error                     *)
(*   avcodec_send_packet     0 | a negative error; a blank packet starts   *)
(*                           draining                                      *)
(*   avcodec_receive_frame   unreferences the frame first (nb_samples 0),  *)
(*                           then 0 with a frame | AVERROR(EAGAIN) |       *)
(*                           AVERROR_EOF (only when draining) | an error   *)
(*   av_samples_alloc        align 0 selects the default alignment: the    *)
(*                           sample count is rounded up to a multiple of   *)
(*                           32; AVERROR(EINVAL) for nb_samples <= 0       *)
(*   swr_convert             the number of samples written | an error      *)
(***************************************************************************)
EXTENDS Integers, Sequences, FiniteSets, TLC

\* ------------------------------------------------------------ bounds
\* packets the container holds at most
MaxPackets == 2
\* frames the decoder delivers at most
MaxFrames == 2
\* streams the container holds at most
MaxStreams == 2
\* bytes the byte source holds at most
MaxFileSize == 2
\* bytes one read callback is asked for at most
MaxRead == 2

\* ------------------------------------------------- program constants
AVERROR_EAGAIN == -11
AVERROR_EOF == -541478725
\* AVERROR(EIO), AVERROR_INVALIDDATA, AVERROR(ENOMEM), AVERROR(EINVAL)
AVERROR_EIO == -5
AVERROR_INVALIDDATA == -1094995529
AVERROR_ENOMEM == -12
AVERROR_EINVAL == -22
\* bytes of one AV_SAMPLE_FMT_S16 sample
SampleBytes == 2
\* channels of the target layout (RESAMPLE_TO_MONO)
TargetChannels == 1
\* default alignment av_samples_alloc applies to the sample count (align 0)
DefaultAlign == 32

NULL == "NULL"
VALID == "VALID"
AUDIO == "AVMEDIA_TYPE_AUDIO"
VIDEO == "AVMEDIA_TYPE_VIDEO"
SampleRates == {44100, 48000}
\* an AVStream's codecpar: sample_rate is 0 unless the stream is audio
StreamKinds == {[codec_type |-> VIDEO, sample_rate |-> 0]}
               \cup {[codec_type |-> AUDIO, sample_rate |-> r] : r \in SampleRates}
\* sample counts a decoded frame may carry: unaligned and aligned
NbSamples == {1, DefaultAlign}
\* the value of a zeroed (silent) byte, and what an uninitialised byte may hold
SilenceByte == 0
UninitBytes == {-1, -2}
\* pCodecParams before a stream is selected
NullParams == [codec_type |-> NULL, sample_rate |-> 0]
\* stream_index of a blank packet
BLANK == -1
\* the origins the seek callback is called with: SEEK_SET, SEEK_CUR, SEEK_END
\* and AVSEEK_SIZE (0x10000)
SEEK_SET == 0
SEEK_CUR == 1
SEEK_END == 2
AVSEEK_SIZE == 65536
Origins == {SEEK_SET, SEEK_CUR, SEEK_END, AVSEEK_SIZE}
\* the value SeekCallback returns for a size query
SeekUnsupported == -1

Resources == {"file", "iobuf", "ioctx", "fmtctx", "codecctx", "swr",
              "packet", "frame"}

VARIABLES
  pc,         \* position in read_audio_into_buffer / FFMPEG_decode
  outcome,    \* "running" | "exit" | "crash" | "returned"
  exitCode,   \* argument of exit()
  reported,   \* messages written to stderr
  sound_data, \* the SoundData read_audio_into_buffer builds
  rd,         \* locals of read_audio_into_buffer
  fd,         \* locals of FFMPEG_decode
  scratch,    \* the bytes pBufferData points to
  env,        \* the container reader and the decoder
  own,        \* resources: state, release count, release order
  hist,       \* history of the run
  io          \* the FILE the callbacks read, and the last callback call

vars == <<pc, outcome, exitCode, reported, sound_data, rd, fd, scratch, env, own, hist, io>>

\* ------------------------------------------------------------ helpers

\* format_av_error(int): exits on every negative code but EAGAIN and EOF
FormatAvErrorFatal(ret) ==
  ret < 0 /\ ret # AVERROR_EAGAIN /\ ret # AVERROR_EOF

\* mutant: the null check left out
FormatAvErrorNull_Ignored(pointer) == FALSE

\* format_av_error(void*, msg): exits on a null pointer
FormatAvErrorNull(pointer) == pointer = NULL

Exit(code, msg) ==
  /\ outcome' = "exit"
  /\ exitCode' = code
  /\ reported' = Append(reported, msg)
  /\ pc' = "exited"

\* a null or out-of-range dereference
Crash ==
  /\ outcome' = "crash"
  /\ pc' = "crashed"
  /\ UNCHANGED <<exitCode, reported>>

Goto(l) ==
  /\ pc' = l
  /\ UNCHANGED <<outcome, exitCode, reported>>

Min(a, b) == IF a < b THEN a ELSE b

Acquire(o, r) == [o EXCEPT !.res[r] = "held", !.acqLog = Append(@, r)]

Release(o, r) ==
  [o EXCEPT !.res[r] = "released",
            !.relCount[r] = @ + 1,
            !.relLog = Append(@, r)]

Failed(h, step) == [h EXCEPT !.failedSetup = @ \cup {step}]

Ptr(ok) == IF ok THEN VALID ELSE NULL

\* events of the pump the history marks: avcodec_receive_frame returned
\* AVERROR_EOF, the first av_read_frame did, a later av_read_frame did
Marks == {"recvEof", "firstEof", "readEof"}

\* no call of the pump was made yet; seq counts the calls, 3 for "third or later"
NoLibraryCall == [call |-> "none", ret |-> 0, seq |-> 0]

\* a FILE: the read cursor, the length of the data, the end-of-file and
\* error indicators
NoFile == [pos |-> 0, size |-> 0, eof |-> FALSE, error |-> FALSE]

\* no callback was called yet
NoCall ==
  [fn |-> "none", offset |-> 0, origin |-> 0, data_size |-> 0, ret |-> 0,
   failed |-> FALSE, before |-> NoFile]

\* the state read_audio_into_buffer starts in
ProgramStart ==
  /\ pc = "fopen"
  /\ outcome = "running"
  /\ exitCode = 0
  /\ reported = <<>>
  /\ sound_data = [buffer |-> <<>>, sample_rate |-> 0, channels |-> 0]
  /\ rd = [file |-> NULL, data_ptr |-> NULL, pInputContext |-> NULL,
           pFormatContext |-> NULL, streams |-> <<>>, video_stream_idx |-> -1,
           pCodecParams |-> NullParams, pCodec |-> NULL, pCodecContext |-> NULL,
           pResampler |-> NULL]
  /\ fd = [error_result |-> 0, pBufferData |-> 0, line_size |-> 0,
           last_nb_samples |-> 0, is_eof |-> FALSE, buffer |-> <<>>,
           packet |-> BLANK, frame |-> [id |-> 0, nb_samples |-> 0]]
  /\ scratch = <<>>
  /\ env = [packetsRead |-> 0, atEof |-> FALSE, draining |-> FALSE]
  /\ own = [res |-> [r \in Resources |-> "none"],
            relCount |-> [r \in Resources |-> 0],
            relLog |-> <<>>, acqLog |-> <<>>,
            scratchLive |-> 0, scratchFreed |-> 0]
  /\ hist = [failedSetup |-> {}, pumpCalled |-> FALSE, frames |-> <<>>,
             allocFor |-> {}, allocs |-> 0, sent |-> {}, dataSent |-> 0,
             converted |-> <<>>, starved |-> TRUE,
             fatal |-> 0, afterFatal |-> {}, badDeref |-> FALSE,
             pumpDone |-> FALSE, scanned |-> FALSE,
             marks |-> {}, after |-> [m \in Marks |-> {}],
             bufAtReadEof |-> <<>>, scratchNb |-> 0, teardown |-> <<>>,
             last |-> NoLibraryCall, prev |-> NoLibraryCall]

Init ==
  /\ ProgramStart
  /\ io = [file |-> NoFile, last |-> NoCall]

\* ------------------------------------------------ read_audio_into_buffer

\* line 160: fopen, its result never checked
Fopen ==
  /\ pc = "fopen"
  /\ \E ok \in BOOLEAN :
       /\ rd' = [rd EXCEPT !.file = Ptr(ok)]
       /\ own' = IF ok THEN Acquire(own, "file") ELSE own
       /\ hist' = IF ok THEN hist ELSE Failed(hist, "fopen")
  /\ Goto("av_malloc")
  /\ UNCHANGED <<io, sound_data, fd, scratch, env>>

\* lines 162-163: av_malloc(BUFFER_SIZE), its result never checked
AvMalloc ==
  /\ pc = "av_malloc"
  /\ \E ok \in BOOLEAN :
       /\ rd' = [rd EXCEPT !.data_ptr = Ptr(ok)]
       /\ own' = IF ok THEN Acquire(own, "iobuf") ELSE own
       /\ hist' = IF ok THEN hist ELSE Failed(hist, "av_malloc")
  /\ Goto("avio_alloc_context")
  /\ UNCHANGED <<io, sound_data, fd, scratch, env>>

\* lines 165-167
AvioAllocContext ==
  /\ pc = "avio_alloc_context"
  /\ \E ok \in BOOLEAN :
       /\ rd' = [rd EXCEPT !.pInputContext = Ptr(ok)]
       /\ own' = IF ok THEN Acquire(own, "ioctx") ELSE own
       /\ hist' = IF ok THEN hist ELSE Failed(hist, "avio_alloc_context")
       /\ IF FormatAvErrorNull(Ptr(ok))
            THEN Exit(-1, "Cannot allocate FFMPEG I/O context!")
            ELSE Goto("avformat_alloc_context")
  /\ UNCHANGED <<io, sound_data, fd, scratch, env>>

\* lines 169-172: the result is dereferenced unchecked
AvformatAllocContext ==
  /\ pc = "avformat_alloc_context"
  /\ \E ok \in BOOLEAN :
       /\ rd' = [rd EXCEPT !.pFormatContext = Ptr(ok)]
       /\ own' = IF ok THEN Acquire(own, "fmtctx") ELSE own
       /\ hist' = IF ok THEN hist ELSE Failed(hist, "avformat_alloc_context")
       /\ IF ok THEN Goto("avformat_open_input") ELSE Crash
  /\ UNCHANGED <<io, sound_data, fd, scratch, env>>

\* lines 174-179.  With a null FILE* or a null I/O buffer the read callback
\* is undefined behaviour: the process crashes or the open fails.  A failed
\* open frees the user-supplied context.
AvformatOpenInput ==
  /\ pc = "avformat_open_input"
  /\ \E o \in {"ok", "error", "crash"} :
       /\ (rd.file = NULL \/ rd.data_ptr = NULL) => o # "ok"
       /\ (rd.file # NULL /\ rd.data_ptr # NULL) => o # "crash"
       /\ CASE o = "ok" ->
                 /\ Goto("avformat_find_stream_info")
                 /\ UNCHANGED <<rd, own, hist>>
            [] o = "error" ->
                 /\ rd' = [rd EXCEPT !.pFormatContext = NULL]
                 /\ own' = Release(own, "fmtctx")
                 /\ hist' = Failed(hist, "avformat_open_input")
                 /\ IF FormatAvErrorFatal(AVERROR_INVALIDDATA)
                      THEN Exit(AVERROR_INVALIDDATA, "Error message")
                      ELSE Goto("avformat_find_stream_info")
            [] o = "crash" ->
                 /\ Crash
                 /\ UNCHANGED <<rd, own, hist>>
  /\ UNCHANGED <<io, sound_data, fd, scratch, env>>

\* lines 181-182: on success the container's streams are known
AvformatFindStreamInfo ==
  /\ pc = "avformat_find_stream_info"
  /\ \/ /\ \E n \in 0..MaxStreams : \E s \in [1..n -> StreamKinds] :
             rd' = [rd EXCEPT !.streams = s]
        /\ Goto("find_stream")
        /\ UNCHANGED hist
     \/ /\ hist' = Failed(hist, "avformat_find_stream_info")
        /\ IF FormatAvErrorFatal(AVERROR_INVALIDDATA)
             THEN Exit(AVERROR_INVALIDDATA, "Error message")
             ELSE Goto("find_stream")
        /\ UNCHANGED rd
  /\ UNCHANGED <<io, sound_data, fd, scratch, env, own>>

\* mutant: the loop without its break, the last audio stream wins
ScanStreams_Last(s, i) ==
  IF \E j \in i..(Len(s) - 1) : s[j + 1].codec_type = AUDIO
    THEN CHOOSE j \in i..(Len(s) - 1) :
           /\ s[j + 1].codec_type = AUDIO
           /\ \A k \in (j + 1)..(Len(s) - 1) : s[k + 1].codec_type # AUDIO
    ELSE -1

\* lines 187-196: the index of the first stream of type audio from i on, or -1
RECURSIVE ScanStreams(_, _)
ScanStreams(s, i) ==
  IF i >= Len(s) THEN -1
  ELSE IF s[i + 1].codec_type = AUDIO THEN i
  ELSE ScanStreams(s, i + 1)

\* lines 184-199
FindAudioStream ==
  /\ pc = "find_stream"
  /\ LET idx == ScanStreams(rd.streams, 0) IN
       /\ rd' = [rd EXCEPT !.video_stream_idx = idx]
       /\ IF idx = -1 /\ FormatAvErrorNull(NULL)
            THEN Exit(-1, "FFMPEG could not find any audio stream!")
            ELSE Goto("select_stream")
  /\ hist' = [hist EXCEPT !.scanned = TRUE]
  /\ UNCHANGED <<io, sound_data, fd, scratch, env, own>>

\* the stream line 201 takes from pFormatContext->streams
SelectedStream(s, idx) == s[idx + 1]

\* lines 201-204: streams[video_stream_idx] is dereferenced; an index
\* outside the array is undefined behaviour
SelectStream ==
  /\ pc = "select_stream"
  /\ IF rd.video_stream_idx \in 0..(Len(rd.streams) - 1)
       THEN /\ rd' = [rd EXCEPT !.pCodecParams =
                        SelectedStream(rd.streams, rd.video_stream_idx)]
            /\ IF FormatAvErrorNull(VALID)
                 THEN Exit(-1, "FFMPEG could not find audio stream!")
                 ELSE Goto("avcodec_find_decoder")
            /\ UNCHANGED hist
       ELSE /\ Crash
            /\ hist' = [hist EXCEPT !.badDeref = TRUE]
            /\ UNCHANGED rd
  /\ UNCHANGED <<io, sound_data, fd, scratch, env, own>>

\* lines 206-207
AvcodecFindDecoder ==
  /\ pc = "avcodec_find_decoder"
  /\ \E ok \in BOOLEAN :
       /\ rd' = [rd EXCEPT !.pCodec = Ptr(ok)]
       /\ hist' = IF ok THEN hist ELSE Failed(hist, "avcodec_find_decoder")
       /\ IF FormatAvErrorNull(Ptr(ok))
            THEN Exit(-1, "FFMPEG could not find target audio codec!")
            ELSE Goto("avcodec_alloc_context3")
  /\ UNCHANGED <<io, sound_data, fd, scratch, env, own>>

\* lines 209-210
AvcodecAllocContext3 ==
  /\ pc = "avcodec_alloc_context3"
  /\ \E ok \in BOOLEAN :
       /\ rd' = [rd EXCEPT !.pCodecContext = Ptr(ok)]
       /\ own' = IF ok THEN Acquire(own, "codecctx") ELSE own
       /\ hist' = IF ok THEN hist ELSE Failed(hist, "avcodec_alloc_context3")
       /\ IF FormatAvErrorNull(Ptr(ok))
            THEN Exit(-1, "FFMPEG could not alloc target audio codec!")
            ELSE Goto("avcodec_parameters_to_context")
  /\ UNCHANGED <<io, sound_data, fd, scratch, env>>

\* line 212: the result is discarded
AvcodecParametersToContext ==
  /\ pc = "avcodec_parameters_to_context"
  /\ \E ok \in BOOLEAN :
       hist' = IF ok THEN hist
               ELSE Failed(hist, "avcodec_parameters_to_context")
  /\ Goto("avcodec_open2")
  /\ UNCHANGED <<io, sound_data, rd, fd, scratch, env, own>>

\* lines 214-215
AvcodecOpen2 ==
  /\ pc = "avcodec_open2"
  /\ \E ret \in {0, AVERROR_INVALIDDATA} :
       /\ hist' = IF ret >= 0 THEN hist ELSE Failed(hist, "avcodec_open2")
       /\ IF FormatAvErrorFatal(ret)
            THEN Exit(ret, "Error message")
            ELSE Goto("swr_alloc_set_opts")
  /\ UNCHANGED <<io, sound_data, rd, fd, scratch, env, own>>

\* lines 217-226: checked only after swr_init
SwrAllocSetOpts ==
  /\ pc = "swr_alloc_set_opts"
  /\ \E ok \in BOOLEAN :
       /\ rd' = [rd EXCEPT !.pResampler = IF ok THEN "allocated" ELSE NULL]
       /\ own' = IF ok THEN Acquire(own, "swr") ELSE own
       /\ hist' = IF ok THEN hist ELSE Failed(hist, "swr_alloc_set_opts")
  /\ Goto("swr_init")
  /\ UNCHANGED <<io, sound_data, fd, scratch, env>>

\* lines 228-230: swr_init's result is discarded; swr_init(NULL)
\* dereferences the null context or returns an error
SwrInit ==
  /\ pc = "swr_init"
  /\ \E o \in {"ok", "error", "crash"} :
       /\ rd.pResampler = NULL => o # "ok"
       /\ rd.pResampler # NULL => o # "crash"
       /\ IF o = "crash"
            THEN /\ Crash
                 /\ UNCHANGED <<rd, hist>>
            ELSE /\ rd' = [rd EXCEPT !.pResampler =
                             IF o = "ok" THEN "initialised" ELSE @]
                 /\ hist' = IF o = "ok" THEN hist ELSE Failed(hist, "swr_init")
                 /\ IF FormatAvErrorNull(rd.pResampler)
                      THEN Exit(-1, "Something went wrong with FFMPEG allocating audio resample context!")
                      ELSE Goto("FFMPEG_decode")
  /\ UNCHANGED <<io, sound_data, fd, scratch, env, own>>

\* --------------------------------------------------------- the library

\* av_read_frame: a packet of some stream while the container has one,
\* else AVERROR_EOF with a blank packet; or an I/O error
AvReadFrame(e, nb_streams) ==
  {[ret |-> 0, pkt |-> i, packetsRead |-> e.packetsRead + 1, atEof |-> FALSE] :
     i \in IF ~e.atEof /\ e.packetsRead < MaxPackets
             THEN 0..(nb_streams - 1) ELSE {}}
  \cup {[ret |-> AVERROR_EOF, pkt |-> BLANK,
         packetsRead |-> e.packetsRead, atEof |-> TRUE],
        [ret |-> AVERROR_EIO, pkt |-> BLANK,
         packetsRead |-> e.packetsRead, atEof |-> e.atEof]}

\* avcodec_send_packet: accepts the packet or fails; a decoder that was
\* flushed refuses data with AVERROR_EOF
AvcodecSendPacket(e, pkt) ==
  IF e.draining /\ pkt # BLANK THEN {AVERROR_EOF}
  ELSE {0, AVERROR_INVALIDDATA}

\* avcodec_receive_frame: the return value and the frame's sample count
AvcodecReceiveFrame(e, h) ==
  {[ret |-> 0, nb_samples |-> n] :
     n \in IF ~e.draining /\ Len(h.frames) < MaxFrames
              /\ h.dataSent > 0
             THEN NbSamples ELSE {}}
  \cup {[ret |-> AVERROR_EAGAIN, nb_samples |-> 0],
        [ret |-> AVERROR_INVALIDDATA, nb_samples |-> 0]}
  \cup (IF e.draining THEN {[ret |-> AVERROR_EOF, nb_samples |-> 0]} ELSE {})

AlignUp(n, a) == ((n + a - 1) \div a) * a

\* the linesize av_samples_alloc(.., 1, nb_samples, S16, 0) reports
LineSize(nb_samples) ==
  AlignUp(nb_samples, DefaultAlign) * SampleBytes * TargetChannels

\* av_samples_alloc: the buffer size, or an error
AvSamplesAlloc(nb_samples) ==
  IF nb_samples <= 0 THEN {AVERROR_EINVAL}
  ELSE {LineSize(nb_samples), AVERROR_ENOMEM}

\* the buffer av_samples_alloc returns: nb_samples of silence, the
\* alignment padding left uninitialised
FreshScratch(nb_samples, u) ==
  [k \in 1..LineSize(nb_samples) |->
     IF k <= nb_samples * SampleBytes * TargetChannels THEN SilenceByte ELSE u]

\* swr_convert: the samples written per channel, or an error; a context
\* that is not initialised only fails
SwrConvert(pResampler, nb_samples) ==
  IF pResampler = "initialised" THEN {nb_samples, AVERROR_EINVAL}
  ELSE {AVERROR_EINVAL}

\* the bytes swr_convert leaves in the scratch buffer: the frame's samples
\* (tagged by the frame's id) over the first nb_samples * 2 bytes
Converted(mem, fr) ==
  [k \in 1..Len(mem) |->
     IF k <= fr.nb_samples * SampleBytes * TargetChannels THEN fr.id
     ELSE mem[k]]

\* history: an error that is neither NeedMoreInput nor EndOfStream
Unrecoverable(ret) == ret < 0 /\ ret \notin {AVERROR_EAGAIN, AVERROR_EOF}

NoteFatal(h, ret) ==
  IF h.fatal = 0 /\ Unrecoverable(ret) THEN [h EXCEPT !.fatal = ret] ELSE h

NoteCall(h, name) ==
  [h EXCEPT !.afterFatal = IF h.fatal # 0 THEN @ \cup {name} ELSE @,
            !.after = [m \in Marks |->
                         IF m \in h.marks THEN @[m] \cup {name} ELSE @[m]]]

\* history: the event m happened if cond
Marked(h, m, cond) == IF cond THEN [h EXCEPT !.marks = @ \cup {m}] ELSE h

\* history: the last two calls of the pump and their results
Logged(h, name, ret) ==
  [h EXCEPT !.prev = h.last,
            !.last = [call |-> name, ret |-> ret,
                      seq |-> Min(h.last.seq + 1, 3)]]

\* --------------------------------------------------------- FFMPEG_decode

\* line 233 (the call) and lines 51-59; a null packet or frame is
\* dereferenced by the first library call
DecodeBegin ==
  /\ pc = "FFMPEG_decode"
  /\ \E ok \in BOOLEAN :
       /\ own' = IF ok THEN Acquire(Acquire(own, "packet"), "frame") ELSE own
       /\ IF ok THEN Goto("first_read") ELSE Crash
  /\ hist' = [hist EXCEPT !.pumpCalled = TRUE]
  /\ UNCHANGED <<io, sound_data, rd, fd, scratch, env>>

\* lines 61-62
FirstRead ==
  /\ pc = "first_read"
  /\ \E o \in AvReadFrame(env, Len(rd.streams)) :
       /\ fd' = [fd EXCEPT !.error_result = o.ret, !.packet = o.pkt]
       /\ env' = [env EXCEPT !.packetsRead = o.packetsRead, !.atEof = o.atEof]
       /\ hist' = Logged(Marked(NoteFatal(NoteCall(hist, "av_read_frame"), o.ret),
                                "firstEof", o.ret = AVERROR_EOF),
                         "av_read_frame", o.ret)
       /\ IF FormatAvErrorFatal(o.ret)
            THEN Exit(o.ret, "Error message")
            ELSE Goto("first_send")
  /\ UNCHANGED <<io, sound_data, rd, scratch, own>>

\* the effect of avcodec_send_packet on the decoder
Sending(e, pkt, ret) ==
  IF pkt = BLANK /\ ret = 0 THEN [e EXCEPT !.draining = TRUE] ELSE e

NoteSend(h, pkt, ret) ==
  NoteFatal([NoteCall(h, "avcodec_send_packet") EXCEPT
               !.sent = @ \cup {pkt},
               !.dataSent = IF pkt # BLANK THEN @ + 1 ELSE @],
            ret)

\* lines 64-67
FirstSend ==
  /\ pc = "first_send"
  /\ \E ret \in AvcodecSendPacket(env, fd.packet) :
       /\ env' = Sending(env, fd.packet, ret)
       /\ hist' = Logged(NoteSend(hist, fd.packet, ret),
                         "avcodec_send_packet", ret)
       /\ fd' = [fd EXCEPT !.error_result = 0]
       /\ IF FormatAvErrorFatal(ret)
            THEN Exit(ret, "Error message")
            ELSE Goto("receive")
  /\ UNCHANGED <<io, sound_data, rd, scratch, own>>

\* mutant: the end-of-stream test of line 79 left out
ReadHitEof_Never(ret) == FALSE

\* line 79
ReadHitEof(ret) == ret = AVERROR_EOF

\* mutant: the test of line 94 left out
AfterInnerLoop_NoBreak(is_eof) == "scratch"

\* lines 94-97: where the pump goes when the do-while loop is left
AfterInnerLoop(is_eof) == IF is_eof THEN "return" ELSE "scratch"

\* mutant: a packet is fetched before every avcodec_receive_frame
NeedMoreInput_Always(ret) == TRUE

\* lines 73 and 92: the do-while loop goes round, fetching a packet, when
\* avcodec_receive_frame returned AVERROR(EAGAIN)
NeedMoreInput(ret) == ret = AVERROR_EAGAIN

\* lines 73-83: the packet fetched after AVERROR(EAGAIN)
ReadPacket ==
  /\ pc = "read"
  /\ \E o \in AvReadFrame(env, Len(rd.streams)) :
       /\ env' = [env EXCEPT !.packetsRead = o.packetsRead, !.atEof = o.atEof]
       /\ hist' = LET h == Marked(NoteFatal(NoteCall(hist, "av_read_frame"), o.ret),
                                  "readEof", o.ret = AVERROR_EOF)
                  IN Logged([h EXCEPT !.bufAtReadEof =
                                        IF o.ret = AVERROR_EOF THEN fd.buffer ELSE @],
                            "av_read_frame", o.ret)
       /\ fd' = [fd EXCEPT !.error_result = o.ret, !.packet = o.pkt,
                           !.is_eof = IF ~FormatAvErrorFatal(o.ret) /\ ReadHitEof(o.ret)
                                        THEN TRUE ELSE @]
       /\ IF FormatAvErrorFatal(o.ret) THEN Exit(o.ret, "Error message")
          ELSE IF ReadHitEof(o.ret) THEN Goto(AfterInnerLoop(TRUE))
          ELSE Goto("send")
  /\ UNCHANGED <<io, sound_data, rd, scratch, own>>

\* lines 85-87
SendPacket ==
  /\ pc = "send"
  /\ \E ret \in AvcodecSendPacket(env, fd.packet) :
       /\ env' = Sending(env, fd.packet, ret)
       /\ hist' = Logged(NoteSend(hist, fd.packet, ret),
                         "avcodec_send_packet", ret)
       /\ fd' = [fd EXCEPT !.error_result = ret]
       /\ IF FormatAvErrorFatal(ret)
            THEN Exit(ret, "Error message")
            ELSE Goto("receive")
  /\ UNCHANGED <<io, sound_data, rd, scratch, own>>

\* lines 90-95: the result is tested only for AVERROR(EAGAIN)
ReceiveFrame ==
  /\ pc = "receive"
  /\ \E o \in AvcodecReceiveFrame(env, hist) :
       /\ fd' = [fd EXCEPT !.error_result = o.ret,
                           !.frame = IF o.ret = 0
                                       THEN [id |-> Len(hist.frames) + 1,
                                             nb_samples |-> o.nb_samples]
                                       ELSE [id |-> 0, nb_samples |-> 0]]
       /\ hist' = LET h == Marked(NoteFatal(NoteCall(hist, "avcodec_receive_frame"),
                                            o.ret),
                                  "recvEof", o.ret = AVERROR_EOF)
                  IN Logged([h EXCEPT !.frames = IF o.ret = 0
                                                   THEN Append(@, o.nb_samples) ELSE @,
                                      !.starved = @ /\ o.ret = AVERROR_EAGAIN],
                            "avcodec_receive_frame", o.ret)
       /\ IF NeedMoreInput(o.ret) THEN Goto("read")
          ELSE Goto(AfterInnerLoop(fd.is_eof))
  /\ UNCHANGED <<io, sound_data, rd, scratch, env, own>>

\* line 97
SampleCountChanged(nb_samples, last) == nb_samples # last

\* mutant: line 108 left out, last_nb_samples keeps its value
NextLastNbSamples_Stale(nb_samples, last) == last

\* line 108
NextLastNbSamples(nb_samples, last) == nb_samples

\* lines 97-111, the frame's sample count differs from the last one: a new
\* buffer is allocated over the old pointer
AllocScratch ==
  /\ pc = "scratch"
  /\ SampleCountChanged(fd.frame.nb_samples, fd.last_nb_samples)
  /\ \E ret \in AvSamplesAlloc(fd.frame.nb_samples) : \E u \in UninitBytes :
       /\ fd' = [fd EXCEPT
                   !.error_result = ret,
                   !.last_nb_samples =
                      NextLastNbSamples(fd.frame.nb_samples, fd.last_nb_samples),
                   !.pBufferData = IF ret >= 0 THEN hist.allocs + 1 ELSE @,
                   !.line_size = IF ret >= 0 THEN LineSize(fd.frame.nb_samples)
                                 ELSE @]
       /\ scratch' = IF ret >= 0 THEN FreshScratch(fd.frame.nb_samples, u)
                     ELSE scratch
       /\ own' = IF ret >= 0 THEN [own EXCEPT !.scratchLive = @ + 1] ELSE own
       /\ hist' = LET h == NoteFatal(NoteCall(hist, "av_samples_alloc"), ret)
                  IN Logged([h EXCEPT !.allocs = IF ret >= 0 THEN @ + 1 ELSE @,
                                      !.allocFor = IF fd.frame.id # 0
                                                     THEN @ \cup {fd.frame.id} ELSE @,
                                      !.scratchNb = IF ret >= 0
                                                      THEN fd.frame.nb_samples ELSE @],
                            "av_samples_alloc", ret)
       /\ IF FormatAvErrorFatal(ret)
            THEN Exit(ret, "Error message")
            ELSE Goto("convert")
  /\ UNCHANGED <<io, sound_data, rd, env>>

\* lines 97 and 111, the sample count is the last one: the buffer is kept
\* and error_result still holds avcodec_receive_frame's result
KeepScratch ==
  /\ pc = "scratch"
  /\ ~SampleCountChanged(fd.frame.nb_samples, fd.last_nb_samples)
  /\ IF FormatAvErrorFatal(fd.error_result)
       THEN Exit(fd.error_result, "Error message")
       ELSE Goto("convert")
  /\ UNCHANGED <<io, sound_data, rd, fd, scratch, env, own, hist>>

\* lines 113-121
Convert ==
  /\ pc = "convert"
  /\ \E ret \in SwrConvert(rd.pResampler, fd.frame.nb_samples) :
       /\ fd' = [fd EXCEPT !.error_result = ret]
       /\ scratch' = IF ret >= 0 THEN Converted(scratch, fd.frame) ELSE scratch
       /\ hist' = LET h == NoteFatal(NoteCall(hist, "swr_convert"), ret)
                  IN Logged([h EXCEPT !.converted = IF ret >= 0 /\ fd.frame.id # 0
                                                      THEN Append(@, fd.frame.id) ELSE @],
                            "swr_convert", ret)
       /\ IF FormatAvErrorFatal(ret) THEN Exit(ret, "Error message")
          ELSE IF ret = AVERROR_EAGAIN \/ ret = AVERROR_EOF THEN Goto("return")
          ELSE Goto("append")
  /\ UNCHANGED <<io, sound_data, rd, env, own>>

\* mutant: the end of the appended range one byte short
Appended_OffByOne(mem, line_size) == SubSeq(mem, 1, line_size - 1)

\* line 123: the bytes appended to the output
Appended(mem, line_size) == SubSeq(mem, 1, line_size)

\* line 123 and the loop test of line 69
AppendOutput ==
  /\ pc = "append"
  /\ fd' = [fd EXCEPT !.buffer = @ \o Appended(scratch, fd.line_size)]
  /\ hist' = Logged(NoteCall(hist, "insert"), "insert", 0)
  /\ IF fd.error_result >= 0 /\ ~fd.is_eof
       THEN Goto("receive")
       ELSE Goto("return")
  /\ UNCHANGED <<io, sound_data, rd, scratch, env, own>>

\* lines 232-240: the SoundData built from the pump's output
MakeSoundData(buf, params) ==
  [buffer |-> buf, sample_rate |-> params.sample_rate,
   channels |-> TargetChannels]

\* line 126 and lines 233-240
DecodeReturn ==
  /\ pc = "return"
  /\ sound_data' = MakeSoundData(fd.buffer, rd.pCodecParams)
  /\ hist' = [hist EXCEPT !.pumpDone = TRUE]
  /\ Goto("teardown")
  /\ UNCHANGED <<io, rd, fd, scratch, env, own>>

\* lines 242-250: avio_context_free, fclose, swr_close (which closes and
\* does not free), avformat_close_input (which frees the context and nulls
\* the pointer), avcodec_free_context, avformat_free_context
Teardown ==
  /\ pc = "teardown"
  /\ LET o1 == Release(Release(own, "ioctx"), "file")
         o2 == Release(o1, "fmtctx")
         o3 == Release(o2, "codecctx")
         closed == [rd EXCEPT !.pInputContext = NULL, !.pResampler = "closed",
                              !.pFormatContext = NULL, !.pCodecContext = NULL]
     IN /\ rd' = closed
        /\ own' = IF closed.pFormatContext # NULL THEN Release(o3, "fmtctx")
                  ELSE o3
  /\ hist' = [hist EXCEPT !.teardown = <<"ioctx", "file", "swr", "fmtctx", "codecctx">>]
  /\ Goto("return_sound_data")
  /\ UNCHANGED <<io, sound_data, fd, scratch, env>>

\* line 252
ReturnSoundData ==
  /\ pc = "return_sound_data"
  /\ outcome' = "returned"
  /\ pc' = "done"
  /\ UNCHANGED <<io, exitCode, reported, sound_data, rd, fd, scratch, env, own, hist>>

\* ------------------------------------------- the custom I/O callbacks

\* bytes between the cursor and the end of the data
Available(f) == IF f.size > f.pos THEN f.size - f.pos ELSE 0

\* fread(data_ptr, 1, n, file): the count it returns and the FILE after it.
\* A read that meets the end of the data returns a short count and sets the
\* end-of-file indicator; a read that fails returns a short count (0
\* included) and sets the error indicator.
Fread(f, n) ==
  {[ret |-> Min(n, Available(f)), failed |-> FALSE,
    file |-> [f EXCEPT !.pos = @ + Min(n, Available(f)),
                       !.eof = @ \/ Available(f) < n]]}
  \cup {[ret |-> c, failed |-> TRUE,
         file |-> [f EXCEPT !.pos = @ + c, !.error = TRUE]] :
          c \in 0..Min(n - 1, Available(f))}

\* the position fseek(file, offset, origin) asks for
SeekTarget(f, offset, origin) ==
  CASE origin = SEEK_SET -> offset
    [] origin = SEEK_CUR -> f.pos + offset
    [] origin = SEEK_END -> f.size + offset
    [] OTHER -> -1

\* fseek: 0 and the cursor moved (the end-of-file indicator cleared), or -1
\* for an invalid origin, a negative position or an I/O failure
Fseek(f, offset, origin) ==
  IF SeekTarget(f, offset, origin) < 0
    THEN {[ret |-> -1, failed |-> TRUE, file |-> f]}
    ELSE {[ret |-> 0, failed |-> FALSE,
           file |-> [f EXCEPT !.pos = SeekTarget(f, offset, origin),
                              !.eof = FALSE]],
          [ret |-> -1, failed |-> TRUE, file |-> [f EXCEPT !.error = TRUE]]}

\* lines 133-136: what ReadCallback returns and does to the FILE
ReadCallbackOutcomes(f, data_size) ==
  IF f.eof
    THEN {[ret |-> AVERROR_EOF, failed |-> FALSE, file |-> f]}
    ELSE Fread(f, data_size)

\* mutant: a size query answered by seeking to the end of the file
SeekCallbackOutcomes_SeekToEnd(f, offset, origin) ==
  IF origin = AVSEEK_SIZE
    THEN {[ret |-> f.size, failed |-> FALSE, file |-> [f EXCEPT !.pos = f.size]]}
    ELSE Fseek(f, offset, origin)

\* lines 144-147: what SeekCallback returns and does to the FILE
SeekCallbackOutcomes(f, offset, origin) ==
  IF origin = AVSEEK_SIZE
    THEN {[ret |-> SeekUnsupported, failed |-> FALSE, file |-> f]}
    ELSE Fseek(f, offset, origin)

\* lines 129-137
ReadCallback ==
  /\ \E data_size \in 1..MaxRead :
       \E o \in ReadCallbackOutcomes(io.file, data_size) :
         io' = [file |-> o.file,
                last |-> [fn |-> "ReadCallback", offset |-> 0, origin |-> 0,
                          data_size |-> data_size, ret |-> o.ret,
                          failed |-> o.failed, before |-> io.file]]
  /\ UNCHANGED <<pc, outcome, exitCode, reported, sound_data, rd, fd, scratch,
                 env, own, hist>>

\* lines 139-148
SeekCallback ==
  /\ \E offset \in (0 - MaxFileSize)..MaxFileSize : \E origin \in Origins :
       \E o \in SeekCallbackOutcomes(io.file, offset, origin) :
         /\ o.file.pos <= MaxFileSize
         /\ io' = [file |-> o.file,
                   last |-> [fn |-> "SeekCallback", offset |-> offset,
                             origin |-> origin, data_size |-> 0, ret |-> o.ret,
                             failed |-> o.failed, before |-> io.file]]
  /\ UNCHANGED <<pc, outcome, exitCode, reported, sound_data, rd, fd, scratch,
                 env, own, hist>>

\* the FILE fopen returns: the cursor at 0, the indicators clear
IoInit ==
  /\ ProgramStart
  /\ \E size \in 0..MaxFileSize :
       io = [file |-> [NoFile EXCEPT !.size = size], last |-> NoCall]

\* the library calls the callbacks in any order, with any arguments
IoNext == ReadCallback \/ SeekCallback

IoSpec == IoInit /\ [][IoNext]_vars

Next ==
  \/ Fopen \/ AvMalloc \/ AvioAllocContext \/ AvformatAllocContext
  \/ AvformatOpenInput \/ AvformatFindStreamInfo \/ FindAudioStream
  \/ SelectStream \/ AvcodecFindDecoder \/ AvcodecAllocContext3
  \/ AvcodecParametersToContext \/ AvcodecOpen2 \/ SwrAllocSetOpts \/ SwrInit
  \/ DecodeBegin \/ FirstRead \/ FirstSend \/ ReadPacket \/ SendPacket
  \/ ReceiveFrame \/ AllocScratch \/ KeepScratch \/ Convert \/ AppendOutput
  \/ DecodeReturn \/ Teardown \/ ReturnSoundData

Spec == Init /\ [][Next]_vars

\* the program is one thread that runs until it returns, exits or crashes
FairSpec == Init /\ [][Next]_vars /\ WF_vars(Next)

\* ================================================================ claims

RECURSIVE SumSeq(_)
SumSeq(s) == IF s = <<>> THEN 0 ELSE Head(s) + SumSeq(Tail(s))

\* bytes of one sample frame of the target format
TargetFrameBytes == SampleBytes * TargetChannels

\* the conversion of frame i (nb_samples samples): its bytes, tagged i
ConversionOf(i, nb_samples) == [k \in 1..(nb_samples * TargetFrameBytes) |-> i]

RECURSIVE ConversionsFrom(_, _)
ConversionsFrom(fr, i) ==
  IF i > Len(fr) THEN <<>>
  ELSE ConversionOf(i, fr[i]) \o ConversionsFrom(fr, i + 1)

\* no received frame is between receive_frame and its append
NoFrameInFlight ==
  pc \in {"receive", "read", "send", "return", "teardown",
          "return_sound_data", "done"}

\* C1 (as claimed): when FFMPEG_decode returns, the output length divided by
\* targetFrameBytes (2 bytes * 1 channel) equals the sum of the sample counts
\* of all decoded frames, for any sample counts.
C1_OutputLengthIsSampleSum ==
  hist.pumpDone =>
    Len(sound_data.buffer) = SumSeq(hist.frames) * TargetFrameBytes

\* C2 (as claimed): whenever no frame is in flight, the output buffer is the
\* concatenation, in decoder order, of the conversions of the frames
\* received so far, each exactly once and nothing else.
C2_OutputIsConcatenation ==
  (hist.pumpCalled /\ NoFrameInFlight) =>
    fd.buffer = ConversionsFrom(hist.frames, 1)

\* C3: with a container of finitely many packets and a decoder whose
\* receive_frame always reports NeedMoreInput, the pump reads and sends each
\* packet and, once the reader reports end-of-stream, returns an empty
\* output instead of looping forever.
C3_StarvedPumpTerminates ==
  /\ [](hist.pumpDone /\ hist.starved =>
          /\ sound_data.buffer = <<>>
          /\ env.atEof
          /\ hist.dataSent = env.packetsRead)
  /\ (hist.pumpCalled ~>
        (outcome # "running" \/ ~hist.starved \/ hist.pumpDone))

\* C3's case: every packet was read and sent, receive_frame only ever
\* reported NeedMoreInput, and the pump returned
C3_Witness ==
  /\ hist.pumpDone /\ hist.starved
  /\ env.packetsRead = MaxPackets
  /\ hist.dataSent = MaxPackets

\* the sample count of the frame received before frame i, 0 before the first
PreviousCount(fr, i) == IF i = 1 THEN 0 ELSE fr[i - 1]

\* frame i went through the test of line 97
PastScratchStep(i) == i < Len(hist.frames) \/ pc # "scratch"

\* C4: the scratch buffer is (re)allocated for a received frame if and only
\* if its sample count differs from that of the previously received frame
\* (the first frame counts as differing).
C4_AllocIffCountChanged ==
  \A i \in 1..Len(hist.frames) :
    PastScratchStep(i) =>
      (i \in hist.allocFor <=> hist.frames[i] # PreviousCount(hist.frames, i))

\* C4's case: a second frame with the sample count of the first reused the
\* buffer the first one allocated
C4_Witness ==
  /\ Len(hist.frames) = 2
  /\ hist.frames[1] = hist.frames[2]
  /\ pc = "append"
  /\ hist.allocFor = {1}

\* C5 (as claimed): after a pump step returned an error that is neither
\* NeedMoreInput nor EndOfStream no further library call or append is made,
\* no output is returned, and the process ends with that very error.
C5_FatalAbortsImmediately ==
  hist.fatal # 0 =>
    /\ hist.afterFatal = {}
    /\ ~hist.pumpDone
    /\ outcome # "running" => (outcome = "exit" /\ exitCode = hist.fatal)

\* C6 (as claimed): the pump is called only if every setup step succeeded; a
\* failed setup step ends the process with a reported error and no
\* SoundData.
C6_PumpOnlyAfterSetupSucceeded ==
  hist.failedSetup # {} =>
    /\ ~hist.pumpCalled
    /\ outcome \in {"running", "exit"}
    /\ outcome = "exit" => reported # <<>>

NoAudioStream ==
  \A i \in 1..Len(rd.streams) : rd.streams[i].codec_type # AUDIO

\* C7: if no stream is audio, read_audio_into_buffer ends in a reported
\* error before streams[video_stream_idx] is dereferenced and before any
\* decoder or resampler exists, and no SoundData is returned.
C7_NoAudioStreamIsReported ==
  (hist.scanned /\ NoAudioStream) =>
    /\ outcome = "exit"
    /\ exitCode = -1
    /\ reported = <<"FFMPEG could not find any audio stream!">>
    /\ ~hist.badDeref
    /\ rd.pCodecParams = NullParams
    /\ rd.pCodec = NULL /\ rd.pCodecContext = NULL /\ rd.pResampler = NULL
    /\ ~hist.pumpCalled

\* C7's case: a container whose streams are all video was scanned
C7_Witness ==
  /\ hist.scanned
  /\ Len(rd.streams) = MaxStreams
  /\ NoAudioStream
  /\ outcome = "exit"

\* C8 (as claimed): on the normal return and on every fatal exit, each
\* acquired resource has been released exactly once.
C8_AllReleasedOnceAtExit ==
  outcome \in {"returned", "exit"} =>
    /\ \A r \in Resources : own.res[r] # "held" /\ own.relCount[r] <= 1
    /\ own.scratchLive = 0

\* C9 (as claimed): every packet passed to avcodec_send_packet belongs to
\* the selected audio stream.
C9_OnlySelectedStreamSent ==
  \A i \in hist.sent : i # BLANK => i = rd.video_stream_idx

\* C10: the output length is always a multiple of sampleWidthBytes *
\* channelCount, and the returned SoundData has one channel and the selected
\* stream's sample rate.
C10_OutputShape ==
  /\ Len(fd.buffer) % (SampleBytes * TargetChannels) = 0
  /\ outcome = "returned" =>
       /\ sound_data.buffer = fd.buffer
       /\ sound_data.channels = 1
       /\ sound_data.sample_rate =
            rd.streams[rd.video_stream_idx + 1].sample_rate

\* C10's case: several pump iterations appended and the SoundData was
\* returned
C10_Witness ==
  /\ outcome = "returned"
  /\ Len(hist.frames) = MaxFrames
  /\ Len(sound_data.buffer) > 0

\* C11: SeekCallback called with the size-query origin returns the
\* "unsupported" value, a negative number and never a size, and leaves the
\* FILE's read cursor where it was, for every offset and cursor position.
C11_SizeQueryUnsupported ==
  (io.last.fn = "SeekCallback" /\ io.last.origin = AVSEEK_SIZE) =>
    /\ io.last.ret = SeekUnsupported
    /\ io.last.ret < 0
    /\ io.file = io.last.before

\* C11's case: a size query with a non-zero offset on a FILE whose cursor
\* had been moved
C11_Witness ==
  /\ io.last.fn = "SeekCallback" /\ io.last.origin = AVSEEK_SIZE
  /\ io.last.offset # 0
  /\ io.last.before.pos > 0
  /\ io.last.before.size > io.last.before.pos

\* C12 (as claimed): a failed underlying read is reported by ReadCallback
\* as an error value, neither the end-of-stream marker nor a byte count (0
\* included), and the end-of-stream marker is returned only when the source
\* is exhausted.
C12_ReadFailureIsDistinct ==
  io.last.fn = "ReadCallback" =>
    /\ io.last.failed => (io.last.ret # AVERROR_EOF /\ io.last.ret < 0)
    /\ io.last.ret = AVERROR_EOF => Available(io.last.before) = 0

\* C13: when the container has an audio stream, the stream whose parameters
\* configure the decoder and the resampler is the audio stream of lowest
\* index: no stream before it is audio, whatever the other streams are.
C13_LowestAudioStreamSelected ==
  (hist.scanned /\ ~NoAudioStream) =>
    /\ rd.video_stream_idx \in 0..(Len(rd.streams) - 1)
    /\ rd.streams[rd.video_stream_idx + 1].codec_type = AUDIO
    /\ \A j \in 0..(rd.video_stream_idx - 1) :
         rd.streams[j + 1].codec_type # AUDIO
    /\ pc # "select_stream" =>
         rd.pCodecParams = rd.streams[rd.video_stream_idx + 1]

\* C13's case: two audio streams of different sample rates, the pump called
\* with the first one's parameters
C13_Witness ==
  /\ hist.pumpCalled
  /\ Len(rd.streams) = 2
  /\ \A i \in 1..2 : rd.streams[i].codec_type = AUDIO
  /\ rd.streams[1].sample_rate # rd.streams[2].sample_rate
  /\ rd.pCodecParams = rd.streams[1]

\* the pump left its loop: FFMPEG_decode is returning or has returned
PumpLeftLoop == pc \in {"return", "teardown", "return_sound_data", "done"}

\* C14 (as claimed): once avcodec_receive_frame has returned AVERROR_EOF
\* the pump makes no further allocation, conversion, append or
\* receive_frame call, does not end in an error, and returns the bytes
\* accumulated so far.
C14_ReceiveEofEndsPump ==
  "recvEof" \in hist.marks =>
    /\ hist.after["recvEof"] = {}
    /\ outcome \in {"running", "returned"}

\* C15 (as claimed): if the first av_read_frame reports end-of-stream, the
\* pump returns an empty output without sending anything to the decoder and
\* without calling receive_frame or the resampler.
C15_FirstReadEofEndsPump ==
  "firstEof" \in hist.marks =>
    /\ hist.after["firstEof"] = {}
    /\ hist.sent = {}
    /\ fd.buffer = <<>>

\* C16: if av_read_frame reports end-of-stream while a packet is fetched
\* after AVERROR(EAGAIN), the pump leaves its loop without any further send,
\* receive, allocation, conversion or append, and the output is what had
\* been accumulated before that read.
C16_ReadEofEndsPump ==
  "readEof" \in hist.marks =>
    /\ hist.after["readEof"] = {}
    /\ PumpLeftLoop
    /\ outcome \in {"running", "returned"}
    /\ fd.buffer = hist.bufAtReadEof
    /\ hist.pumpDone => sound_data.buffer = hist.bufAtReadEof

\* C16's case: end-of-stream was read after frames had been appended, and
\* the pump returned
C16_Witness ==
  /\ "readEof" \in hist.marks
  /\ hist.pumpDone
  /\ Len(hist.frames) = MaxFrames
  /\ Len(hist.bufAtReadEof) > 0

\* C17 (as claimed): at most one scratch allocation is live at any time,
\* and when FFMPEG_decode returns every allocation has been released
\* exactly once.
C17_ScratchReleasedOnce ==
  /\ own.scratchLive <= 1
  /\ own.scratchFreed <= hist.allocs
  /\ hist.pumpDone => (own.scratchLive = 0 /\ own.scratchFreed = hist.allocs)

\* C18 (as claimed): at every call of swr_convert the frame is one just
\* returned by a successful avcodec_receive_frame and the scratch buffer is
\* allocated, for exactly that frame's sample count.
C18_ConvertUsesMatchingScratch ==
  pc = "convert" =>
    /\ fd.frame.id # 0
    /\ fd.frame.id = Len(hist.frames)
    /\ hist.last.call \in {"avcodec_receive_frame", "av_samples_alloc"}
    /\ fd.pBufferData # 0
    /\ hist.scratchNb = fd.frame.nb_samples
    /\ Len(scratch) = LineSize(fd.frame.nb_samples)

\* the contexts, in the order the claim releases them
RECURSIVE Reverse(_)
Reverse(s) == IF s = <<>> THEN <<>> ELSE Append(Reverse(Tail(s)), Head(s))

Contexts == {"swr", "codecctx", "fmtctx", "ioctx", "file"}

IsContext(r) == r \in Contexts

\* C19 (as claimed): on normal completion the contexts are released in the
\* reverse order of their acquisition: resampler, decoder, container, I/O
\* context, file handle.
C19_ReverseOrderTeardown ==
  outcome = "returned" =>
    /\ hist.teardown = Reverse(SelectSeq(own.acqLog, IsContext))
    /\ hist.teardown = <<"swr", "codecctx", "fmtctx", "ioctx", "file">>

\* C20: apart from the initial packet, a packet is read only right after
\* avcodec_receive_frame returned AVERROR(EAGAIN); a packet that was read
\* is sent, once, before the next receive_frame; and after an append the
\* next call is receive_frame.
C20_ReadOnlyOnNeedMoreInput ==
  LET l == hist.last
      p == hist.prev
  IN /\ (l.call = "av_read_frame" /\ l.seq > 1) =>
          (p.call = "avcodec_receive_frame" /\ p.ret = AVERROR_EAGAIN)
     /\ (l.call = "avcodec_send_packet" /\ l.seq > 2) =>
          (p.call = "av_read_frame" /\ p.ret = 0)
     /\ (p.call = "av_read_frame" /\ p.ret = 0) =>
          l.call = "avcodec_send_packet"
     /\ p.call \in {"avcodec_send_packet", "insert"} =>
          l.call = "avcodec_receive_frame"
     /\ hist.dataSent =
          env.packetsRead -
            (IF pc \in {"first_send", "send"} /\ fd.packet # BLANK THEN 1 ELSE 0)

\* C20's case: a frame was appended, the next receive_frame asked for
\* input, and a second packet was read and sent
C20_Witness ==
  /\ hist.dataSent = MaxPackets
  /\ Len(fd.buffer) > 0
  /\ hist.last.call = "avcodec_send_packet"
  /\ hist.last.seq > 2

====
